---- MODULE Spec2Model ----
(***************************************************************************)
(* Model of the unit converter of src/include/converter.h: the linear      *)
(* transforms, the conversion entries generated by converter_traits, the   *)
(* chain of responsible actors built by converter, and the lazily created  *)
(* singletons (converter, converter_factory) and thread_local transforms.  *)
(*                                                                         *)
(* A float is modelled as an exact rational <<numerator, denominator>> in  *)
(* lowest terms with a positive denominator: the arithmetic is the real    *)
(* arithmetic the float pipeline approximates, so every equality below is  *)
(* an equality "up to floating-point rounding" of the code's result.       *)
(***************************************************************************)
EXTENDS Integers, Sequences, FiniteSets, TLC

\* ------------------------------------------------------------- bounds
\* Integer magnitudes -MaxValue..MaxValue are offered as request values.
MaxValue == 1
\* Number of threads of the multi-threaded specification.
NumThreads == 2

\* ------------------------------------------------------ exact rationals
Abs(n) == IF n < 0 THEN -n ELSE n

RECURSIVE GCD(_, _)
GCD(a, b) == IF b = 0 THEN a ELSE GCD(b, a % b)

Norm(n, d) ==
    LET g == GCD(Abs(n), Abs(d))
        s == IF d < 0 THEN -1 ELSE 1
    IN  <<s * (n \div g), s * (d \div g)>>

R(n, d) == Norm(n, d)
Flt(n) == <<n, 1>>

RMul(x, y) ==
    LET g1 == GCD(Abs(x[1]), y[2])
        g2 == GCD(Abs(y[1]), x[2])
    IN  Norm((x[1] \div g1) * (y[1] \div g2), (x[2] \div g2) * (y[2] \div g1))

RAdd(x, y) ==
    LET g == GCD(x[2], y[2])
    IN  Norm(x[1] * (y[2] \div g) + y[1] * (x[2] \div g), (x[2] \div g) * y[2])

RNeg(x) == <<-x[1], x[2]>>
RSub(x, y) == RAdd(x, RNeg(y))
RInv(x) == IF x[1] > 0 THEN <<x[2], x[1]>> ELSE <<-x[2], -x[1]>>
RDiv(x, y) == RMul(x, RInv(y))

\* n * 10^k < d for naturals n, d, computed without forming 10^k.
RECURSIVE LessScaled(_, _, _)
LessScaled(n, d, k) ==
    IF k = 0 THEN n < d ELSE LessScaled(n, (d + 9) \div 10, k - 1)

\* ---------------------------------------------------------- linear
\* EPSILON = 1e-10f: the decimal exponent of the threshold.
EPSILON_EXP == 10

\* std::abs(factor) < EPSILON
too_small(factor) == LessScaled(Abs(factor[1]), factor[2], EPSILON_EXP)

\* linear::linear(factor, offset); ok = FALSE is the constructor's throw.
linear(factor, offset) ==
    IF too_small(factor)
    THEN [ok |-> FALSE, m_factor |-> factor, m_divider |-> Flt(0), m_offset |-> offset]
    ELSE [ok |-> TRUE, m_factor |-> factor,
          m_divider |-> RDiv(Flt(1), factor), m_offset |-> offset]

linear_forward(l, value) == RAdd(RMul(l.m_factor, value), l.m_offset)
\* Variant of linear_backward that drops the offset.
linear_backward_no_offset(l, value) == RMul(value, l.m_divider)
linear_backward(l, value) == RMul(RSub(value, l.m_offset), l.m_divider)

\* ---------------------------------------------------------- metrics
signature(u) ==
    CASE u = "gramm" -> "g" [] u = "lb" -> "lb" [] u = "pood" -> "p"
      [] u = "meter" -> "m" [] u = "mile" -> "ml" [] u = "verst" -> "v"
      [] u = "celsius" -> "c" [] u = "fahrenheit" -> "f" [] u = "kelvin" -> "k"

weight_metrics == <<"gramm", "lb", "pood">>
distance_metrics == <<"meter", "mile", "verst">>
temperature_metrics == <<"celsius", "fahrenheit", "kelvin">>

\* The metric groups converter<...> is instantiated with in main.cpp.
metrics == <<weight_metrics, distance_metrics, temperature_metrics>>

\* The declared specialisations of metric_conversion_type<_primary, _minor>.
ConversionTypes ==
    { <<"gramm", "lb">>, <<"gramm", "pood">>, <<"meter", "mile">>,
      <<"meter", "verst">>, <<"celsius", "fahrenheit">>, <<"celsius", "kelvin">> }

\* The base-class constructor call of each specialisation.
metric_conversion_type(p, m) ==
    CASE <<p, m>> = <<"gramm", "lb">> -> linear(R(453592, 1000), Flt(0))
      [] <<p, m>> = <<"gramm", "pood">> -> linear(R(163807, 10), Flt(0))
      [] <<p, m>> = <<"meter", "mile">> -> linear(R(160934, 100), Flt(0))
      [] <<p, m>> = <<"meter", "verst">> -> linear(R(10668, 10), Flt(0))
      [] <<p, m>> = <<"celsius", "fahrenheit">> -> linear(RDiv(Flt(9), Flt(5)), Flt(32))
      [] <<p, m>> = <<"celsius", "kelvin">> -> linear(Flt(1), R(27315, 100))

\* Variant of overrides in which no specialisation swaps the directions.
overrides_none(p, m) == FALSE

\* The specialisations that hide linear::forward / linear::backward.
overrides(p, m) == <<p, m>> = <<"celsius", "fahrenheit">>

\* metric_conversion_type<p, m>::forward as the call through the static type resolves it.
forward(p, m, value) ==
    IF overrides(p, m)
    THEN linear_backward(metric_conversion_type(p, m), value)
    ELSE linear_forward(metric_conversion_type(p, m), value)

\* metric_conversion_type<p, m>::backward.
backward(p, m, value) ==
    IF overrides(p, m)
    THEN linear_forward(metric_conversion_type(p, m), value)
    ELSE linear_backward(metric_conversion_type(p, m), value)

\* ------------------------------------------------- conversion entries
\* primary_metrics_converter<_primary, _minor, _direction>
primary_metrics_converter(p, m, d) ==
    [tmpl |-> "primary", primary |-> p, first |-> m, second |-> m, direction |-> d]

\* minor_metrics_converter<_primary, _first_minor, _second_minor>
minor_metrics_converter(p, f, s) ==
    [tmpl |-> "minor", primary |-> p, first |-> f, second |-> s, direction |-> FALSE]

\* std::conditional<c, a, b>::type
conditional(c, a, b) == IF c THEN a ELSE b

from_signature(e) ==
    IF e.tmpl = "primary"
    THEN signature(conditional(~e.direction, e.primary, e.first))
    ELSE signature(e.second)

\* Variant of to_signature that always names the minor.
to_signature_minor(e) == signature(e.first)

to_signature(e) ==
    IF e.tmpl = "primary"
    THEN signature(conditional(e.direction, e.primary, e.first))
    ELSE signature(e.first)

\* The transforms a call of convert fetches from converter_factory.
transforms(e) ==
    IF e.tmpl = "primary"
    THEN IF e.primary = e.first THEN {} ELSE { <<e.primary, e.first>> }
    ELSE IF e.first = e.second THEN {}
         ELSE { <<e.primary, e.first>>, <<e.primary, e.second>> }

\* Variant of primary_convert with the two directions exchanged.
primary_convert_swapped(e, value) ==
    IF e.primary = e.first THEN value
    ELSE IF e.direction THEN backward(e.primary, e.first, value)
    ELSE forward(e.primary, e.first, value)

\* primary_metrics_converter::convert
primary_convert(e, value) ==
    IF e.primary = e.first THEN value
    ELSE IF e.direction THEN forward(e.primary, e.first, value)
    ELSE backward(e.primary, e.first, value)

\* minor_metrics_converter::convert
minor_convert(e, value) ==
    IF e.first = e.second THEN value
    ELSE forward(e.primary, e.second, backward(e.primary, e.first, value))

\* _metrics_converter::convert of the entry's type.
convert(e, value) ==
    IF e.tmpl = "primary" THEN primary_convert(e, value) ELSE minor_convert(e, value)

\* ---------------------------------------------------- converter_traits
RECURSIVE tuple_cat(_)
tuple_cat(ts) == IF ts = <<>> THEN <<>> ELSE Head(ts) \o tuple_cat(Tail(ts))

\* converter_traits::combined<_first_minor, _other_minors...>::type
combined(p, first_minor, other_minors) ==
    [i \in 1..Len(other_minors) |-> minor_metrics_converter(p, first_minor, other_minors[i])]

primary_minor_conversions(p, minors) ==
    [i \in 1..Len(minors) |-> primary_metrics_converter(p, minors[i], TRUE)]

minor_primary_conversions(p, minors) ==
    [i \in 1..Len(minors) |-> primary_metrics_converter(p, minors[i], FALSE)]

minor_conversions(p, minors) ==
    tuple_cat([i \in 1..Len(minors) |-> combined(p, minors[i], minors)])

\* converter_traits<std::tuple<_primary, _minors...>>::type
converter_traits(group) ==
    LET p == Head(group)
        minors == Tail(group)
    IN  tuple_cat(<<primary_minor_conversions(p, minors),
                    minor_primary_conversions(p, minors),
                    minor_conversions(p, minors)>>)

\* ------------------------------------------------ chain of responsibles
\* Variant of add_next that links the new actor after the chain.
add_next_append(actor, chain) == Append(chain, actor)

\* One step of add_responsibles: the new actor takes the current chain as its
\* m_next and becomes m_responsible.
add_next(actor, chain) == <<actor>> \o chain

RECURSIVE add_responsibles(_, _)
add_responsibles(chain, converters) ==
    IF converters = <<>> THEN chain
    ELSE add_responsibles(add_next(Head(converters), chain), Tail(converters))

RECURSIVE add_responsible_groups(_, _)
add_responsible_groups(chain, groups) ==
    IF groups = <<>> THEN chain
    ELSE add_responsible_groups(add_responsibles(chain, converter_traits(Head(groups))),
                                Tail(groups))

\* converter::converter(): m_responsible after construction.
converter_ctor == add_responsible_groups(<<>>, metrics)

\* Variant of is_reponsible that compares the source signature alone.
is_reponsible_from_only(e, from, to) == from_signature(e) = from

\* responsible_impl::is_reponsible
is_reponsible(e, from, to) == from_signature(e) = from /\ to_signature(e) = to

\* responsible_impl::process down the chain from actor i: the actors examined
\* and the index of the one that answers (0: the chain ended, std::nullopt).
RECURSIVE responsible_process(_, _, _, _)
responsible_process(chain, i, from, to) ==
    IF is_reponsible(chain[i], from, to) THEN [hit |-> i, seen |-> <<i>>]
    ELSE IF i < Len(chain)
    THEN LET r == responsible_process(chain, i + 1, from, to)
         IN  [hit |-> r.hit, seen |-> <<i>> \o r.seen]
    ELSE [hit |-> 0, seen |-> <<i>>]

\* converter::process on a constructed converter: same, from m_responsible.
converter_process(chain, from, to) ==
    IF chain # <<>> THEN responsible_process(chain, 1, from, to)
    ELSE [hit |-> 0, seen |-> <<>>]

\* ------------------------------------------------------------- state
VARIABLES
    m_instance,          \* converter::m_instance: 0 (nullptr) or the id of a converter
    m_responsible,       \* id of a constructed converter -> its chain of entries
    freed,               \* ids of the converters a later assignment destroyed
    factory_instance,    \* converter_factory::m_instance: 0 (nullptr) or an id
    factory_count,       \* converter_factory objects constructed so far
    conversion,          \* thread -> the thread_local transforms it has constructed
    built,               \* <<primary, minor>> -> transforms constructed, all threads
    thread               \* thread -> the call it is in

vars == <<m_instance, m_responsible, freed, factory_instance, factory_count,
          conversion, built, thread>>

Threads == 1..NumThreads
\* main.cpp serves with threads(1).
MainThread == 1

Signatures == { "g", "lb", "p", "m", "ml", "v", "c", "f", "k", "xx" }
Values == { Flt(i) : i \in -MaxValue..MaxValue } \cup { Flt(5), Flt(32) }
\* The calls the serving thread receives: every value of Values with every pair
\* of signatures of one group, the value 5 with every other pair of signatures
\* (two groups, or an unrecognized string), and two calls with larger magnitudes.
Requests ==
    { r \in Signatures \X Signatures \X Values :
        \/ r[3] = Flt(5)
        \/ \E g \in 1..Len(metrics) :
              /\ \E i \in 1..Len(metrics[g]) : signature(metrics[g][i]) = r[1]
              /\ \E i \in 1..Len(metrics[g]) : signature(metrics[g][i]) = r[2] }
        \cup { <<"g", "lb", Flt(1000)>>, <<"m", "v", R(10668, 10)>> }
\* The calls the threads of the multi-threaded specification make.
MTRequests == { <<"lb", "g">>, <<"lb", "p">>, <<"lb", "lb">>, <<"xx", "g">> }

NoResult == [kind |-> "none", val |-> Flt(0)]
Nullopt == [kind |-> "nullopt", val |-> Flt(0)]
Fault == [kind |-> "fault", val |-> Flt(0)]
Some(v) == [kind |-> "value", val |-> v]

Idle == [pc |-> "idle", from |-> "", to |-> "", value |-> Flt(0), self |-> 0,
         hit |-> 0, seen |-> <<>>, used |-> {}, result |-> NoResult]

Init ==
    /\ m_instance = 0
    /\ m_responsible = <<>>
    /\ freed = {}
    /\ factory_instance = 0
    /\ factory_count = 0
    /\ conversion = [t \in Threads |-> {}]
    /\ built = [c \in ConversionTypes |-> 0]
    /\ thread = [t \in Threads |-> Idle]

\* ----------------------------------------------------------- actions
\* The adapter calls converter<...>::instance()->process(from, to, value).
Request(t, from, to, value) ==
    /\ thread[t].pc = "idle"
    /\ thread' = [thread EXCEPT ![t] = [Idle EXCEPT !.pc = "instance", !.from = from,
                                                   !.to = to, !.value = value]]
    /\ UNCHANGED <<m_instance, m_responsible, freed, factory_instance, factory_count,
                   conversion, built>>

\* converter::instance(): if (!m_instance)
InstanceCheck(t) ==
    /\ thread[t].pc = "instance"
    /\ thread' = [thread EXCEPT ![t].pc =
                     IF m_instance = 0 THEN "new_converter" ELSE "deref"]
    /\ UNCHANGED <<m_instance, m_responsible, freed, factory_instance, factory_count,
                   conversion, built>>

\* converter::instance(): m_instance = std::unique_ptr<converter>(new converter).
\* The constructor builds the chain; the assignment destroys the converter
\* m_instance held, if another thread stored one since this thread's check.
InstanceCreate(t) ==
    /\ thread[t].pc = "new_converter"
    /\ m_responsible' = Append(m_responsible, converter_ctor)
    /\ m_instance' = Len(m_responsible) + 1
    /\ freed' = IF m_instance = 0 THEN freed ELSE freed \cup {m_instance}
    /\ thread' = [thread EXCEPT ![t].pc = "deref"]
    /\ UNCHANGED <<factory_instance, factory_count, conversion, built>>

\* instance()->process(...): operator-> reads the pointer m_instance holds now.
Deref(t) ==
    /\ thread[t].pc = "deref"
    /\ thread' = [thread EXCEPT ![t].pc = "process", ![t].self = m_instance]
    /\ UNCHANGED <<m_instance, m_responsible, freed, factory_instance, factory_count,
                   conversion, built>>

\* converter::process and the chain of responsible_impl::process calls, up to
\* the call of convert: an identity entry returns the value at once, any other
\* entry goes on to converter_factory::instance().
walk(t) ==
    LET chain == m_responsible[thread[t].self]
        r == converter_process(chain, thread[t].from, thread[t].to)
    IN  /\ thread' = [thread EXCEPT
               ![t].hit = r.hit,
               ![t].seen = r.seen,
               ![t].result = IF r.hit = 0 THEN Nullopt
                             ELSE IF transforms(chain[r.hit]) = {}
                             THEN Some(convert(chain[r.hit], thread[t].value))
                             ELSE NoResult,
               ![t].pc = IF r.hit # 0 /\ transforms(chain[r.hit]) # {}
                         THEN "factory" ELSE "done"]
        /\ UNCHANGED <<m_instance, m_responsible, freed, factory_instance,
                       factory_count, conversion, built>>

Process(t) ==
    /\ thread[t].pc = "process"
    /\ thread[t].self \notin freed
    /\ walk(t)

\* The converter this thread calls process on was destroyed by another
\* thread's assignment to m_instance: undefined behaviour. The call crashes,
\* or reads the stale object as if it were alive.
UseAfterFree(t) ==
    /\ thread[t].pc = "process"
    /\ thread[t].self \in freed
    /\ \/ /\ thread' = [thread EXCEPT ![t].pc = "done", ![t].result = Fault]
          /\ UNCHANGED <<m_instance, m_responsible, freed, factory_instance,
                         factory_count, conversion, built>>
       \/ walk(t)

\* converter_factory::instance(): if (!m_instance)
FactoryCheck(t) ==
    /\ thread[t].pc = "factory"
    /\ thread' = [thread EXCEPT ![t].pc =
                     IF factory_instance = 0 THEN "new_factory" ELSE "convert"]
    /\ UNCHANGED <<m_instance, m_responsible, freed, factory_instance, factory_count,
                   conversion, built>>

\* converter_factory::instance(): m_instance = std::unique_ptr(new converter_factory)
FactoryCreate(t) ==
    /\ thread[t].pc = "new_factory"
    /\ factory_count' = factory_count + 1
    /\ factory_instance' = factory_count + 1
    /\ thread' = [thread EXCEPT ![t].pc = "convert"]
    /\ UNCHANGED <<m_instance, m_responsible, freed, conversion, built>>

\* converter_factory::converter<_primary, _minor>() for each transform the
\* entry uses (the thread_local is constructed on this thread's first use; a
\* throwing constructor leaves it unconstructed and the exception leaves
\* process), then forward/backward on it.
Convert(t) ==
    /\ thread[t].pc = "convert"
    /\ LET e == m_responsible[thread[t].self][thread[t].hit]
           needed == transforms(e)
           fresh == needed \ conversion[t]
           throws == \E c \in fresh : ~metric_conversion_type(c[1], c[2]).ok
       IN  IF throws
           THEN /\ thread' = [thread EXCEPT ![t].pc = "done", ![t].result = Fault]
                /\ UNCHANGED <<conversion, built>>
           ELSE /\ conversion' = [conversion EXCEPT ![t] = @ \cup needed]
                /\ built' = [c \in ConversionTypes |->
                                IF c \in fresh THEN built[c] + 1 ELSE built[c]]
                /\ thread' = [thread EXCEPT ![t].pc = "done", ![t].used = needed,
                                  ![t].result = Some(convert(e, thread[t].value))]
    /\ UNCHANGED <<m_instance, m_responsible, freed, factory_instance, factory_count>>

\* process returns to the adapter.
Return(t) ==
    /\ thread[t].pc = "done"
    /\ thread' = [thread EXCEPT ![t] = Idle]
    /\ UNCHANGED <<m_instance, m_responsible, freed, factory_instance, factory_count,
                   conversion, built>>

\* ---------------------------------------------------- specifications
\* The program as main.cpp runs it: one serving thread.
Next ==
    \/ \E r \in Requests : Request(MainThread, r[1], r[2], r[3])
    \/ InstanceCheck(MainThread)
    \/ InstanceCreate(MainThread)
    \/ Deref(MainThread)
    \/ Process(MainThread)
    \/ FactoryCheck(MainThread)
    \/ FactoryCreate(MainThread)
    \/ Convert(MainThread)
    \/ Return(MainThread)

Spec == Init /\ [][Next]_vars

\* The converter called from several threads at once.
NextMT ==
    \E t \in Threads :
        \/ \E r \in MTRequests : Request(t, r[1], r[2], Flt(1))
        \/ InstanceCheck(t)
        \/ InstanceCreate(t)
        \/ Deref(t)
        \/ Process(t)
        \/ UseAfterFree(t)
        \/ FactoryCheck(t)
        \/ FactoryCreate(t)
        \/ Convert(t)
        \/ Return(t)

SpecMT == Init /\ [][NextMT]_vars

\* ------------------------------------------------ vocabulary of the claims
\* The call the serving thread is in, and the chain it runs on.
call == thread[MainThread]
Done == call.pc = "done"
chain_of(c) == m_responsible[c.self]

CatalogSignatures == { signature(metrics[g][i]) : g \in 1..Len(metrics), i \in 1..3 }
PrimarySignatures == { signature(Head(metrics[g])) : g \in 1..Len(metrics) }
MinorSignatures == CatalogSignatures \ PrimarySignatures
GroupIndex(s) == CHOOSE g \in 1..Len(metrics) : \E i \in 1..3 : signature(metrics[g][i]) = s
SameGroup(a, b) ==
    a \in CatalogSignatures /\ b \in CatalogSignatures /\ GroupIndex(a) = GroupIndex(b)
PrimaryOf(s) == signature(Head(metrics[GroupIndex(s)]))
DistinctMinors(a, b) ==
    a \in MinorSignatures /\ b \in MinorSignatures /\ a # b /\ SameGroup(a, b)

\* Some entry of the chain carries the pair (from, to).
HasEntry(chain, from, to) ==
    \E i \in 1..Len(chain) : from_signature(chain[i]) = from /\ to_signature(chain[i]) = to

\* What a complete call process(from, to, value) returns on a chain when no
\* transform constructor throws.
answer(chain, from, to, value) ==
    LET r == converter_process(chain, from, to)
    IN  IF r.hit = 0 THEN Nullopt ELSE Some(convert(chain[r.hit], value))

\* The stepwise call and the complete call agree.
StepwiseAgrees ==
    Done => call.result = answer(chain_of(call), call.from, call.to, call.value)

\* C1: process("c", "k", v) returns v + 273.15 for every v; process("c", "k", 0)
\* is 273.15.
C1_CelsiusToKelvin ==
    (Done /\ call.from = "c" /\ call.to = "k")
        => call.result = Some(RAdd(call.value, R(27315, 100)))

\* C2: for every unit U of the catalog, primaries and minors alike,
\* process(U, U, v) returns a present result that is exactly v, and no
\* Transform is invoked.
C2_Identity ==
    (Done /\ call.from = call.to /\ call.from \in CatalogSignatures)
        => (call.result = Some(call.value) /\ call.used = {})

\* C3: process never raises a fault; it returns std::nullopt whenever (from, to)
\* is not the signature pair of an entry, in particular for units of different
\* groups and for unrecognized strings, and a present value whenever the pair
\* has an entry.
C3_NoMatch ==
    Done =>
        /\ call.result.kind # "fault"
        /\ ~HasEntry(chain_of(call), call.from, call.to) => call.result = Nullopt
        /\ HasEntry(chain_of(call), call.from, call.to) => call.result.kind = "value"
        /\ (call.from \notin CatalogSignatures \/ call.to \notin CatalogSignatures
              \/ ~SameGroup(call.from, call.to)) => call.result = Nullopt

\* A cross-group call has returned std::nullopt.
C3_Witness ==
    Done /\ call.from = "g" /\ call.to = "m" /\ call.value = Flt(5)
         /\ call.result = Nullopt

\* C4: process("c", "f", v) is v*9/5 + 32 and process("f", "c", v) is
\* (v - 32)*5/9, for every v.
C4_CelsiusFahrenheit ==
    /\ (Done /\ call.from = "c" /\ call.to = "f")
          => call.result = Some(RAdd(RMul(call.value, R(9, 5)), Flt(32)))
    /\ (Done /\ call.from = "f" /\ call.to = "c")
          => call.result = Some(RMul(RSub(call.value, Flt(32)), R(5, 9)))

\* process("f", "c", 32) has returned 0.
C4_Witness ==
    Done /\ call.from = "f" /\ call.to = "c" /\ call.value = Flt(32)
         /\ call.result = Some(Flt(0))

\* The declared zero-offset pairs: <<primary, minor, factor>>.
ZeroOffsetPairs ==
    { <<"g", "lb", R(453592, 1000)>>, <<"g", "p", R(163807, 10)>>,
      <<"m", "ml", R(160934, 100)>>, <<"m", "v", R(10668, 10)>> }

\* C5: for each declared zero-offset pair and every v, process(primary, minor, v)
\* is v / factor and process(minor, primary, v) is v * factor.
C5_ZeroOffset ==
    \A z \in ZeroOffsetPairs :
        /\ (Done /\ call.from = z[1] /\ call.to = z[2])
              => call.result = Some(RDiv(call.value, z[3]))
        /\ (Done /\ call.from = z[2] /\ call.to = z[1])
              => call.result = Some(RMul(call.value, z[3]))

\* process("m", "v", 1066.8) has returned 1.
C5_Witness ==
    Done /\ call.from = "m" /\ call.to = "v" /\ call.value = R(10668, 10)
         /\ call.result = Some(Flt(1))

\* C6: for distinct minors M1, M2 of one group and every v, process(M1, M2, v)
\* is present and process(M2, M1, process(M1, M2, v)) is present and equals v.
C6_RoundTrip ==
    (Done /\ DistinctMinors(call.from, call.to)) =>
        /\ call.result.kind = "value"
        /\ answer(chain_of(call), call.to, call.from, call.result.val) = Some(call.value)

\* process("f", "k", 32) has returned a value that process("k", "f", .) takes
\* back to 32.
C6_Witness ==
    Done /\ call.from = "f" /\ call.to = "k" /\ call.value = Flt(32)
         /\ call.result.kind = "value"
         /\ call.result.val # call.value
         /\ answer(chain_of(call), "k", "f", call.result.val) = Some(Flt(32))

\* C8: for distinct minors A, B of a group with primary P and every v,
\* process(A, B, v) equals process(P, B, process(A, P, v)).
C8_Hub ==
    (Done /\ DistinctMinors(call.from, call.to)) =>
        LET P == PrimaryOf(call.from)
            viaPrimary == answer(chain_of(call), call.from, P, call.value)
        IN  call.result = answer(chain_of(call), P, call.to, viaPrimary.val)

\* The place the claimed scan order gives an entry: weight, distance,
\* temperature; within a group primary-to-minor, minor-to-primary, minor-to-minor.
ClaimedRank(e) ==
    3 * (GroupIndex(from_signature(e)) - 1)
      + (IF from_signature(e) \in PrimarySignatures THEN 0
         ELSE IF to_signature(e) \in PrimarySignatures THEN 1 ELSE 2)

\* The entries are examined in a single pass and the first match is applied.
FirstMatchApplied ==
    LET chain == chain_of(call)
        seen == call.seen
    IN  /\ \A i \in 1..(Len(seen) - 1) : seen[i] < seen[i + 1]
        /\ \A i \in 1..(Len(seen) - 1) :
               ~(from_signature(chain[seen[i]]) = call.from
                   /\ to_signature(chain[seen[i]]) = call.to)
        /\ call.hit # 0 =>
               /\ seen[Len(seen)] = call.hit
               /\ from_signature(chain[call.hit]) = call.from
               /\ to_signature(chain[call.hit]) = call.to
               /\ call.result = Some(convert(chain[call.hit], call.value))
        /\ call.hit = 0 =>
               /\ { seen[i] : i \in 1..Len(seen) } = 1..Len(chain)
               /\ call.result = Nullopt

\* C9 as claimed: the entries are examined in the order weight, distance,
\* temperature, and within a group primary-to-minor, then minor-to-primary,
\* then minor-to-minor; the first match is applied.
C9_ClaimedOrder ==
    Done =>
        /\ \A i \in 1..(Len(call.seen) - 1) :
               ClaimedRank(chain_of(call)[call.seen[i]])
                   <= ClaimedRank(chain_of(call)[call.seen[i + 1]])
        /\ FirstMatchApplied

\* The place the amended scan order gives an entry: temperature, distance,
\* weight; within a group minor-to-minor, primary-to-minor, minor-to-primary.
ActualRank(e) ==
    3 * (Len(metrics) - GroupIndex(from_signature(e)))
      + (IF from_signature(e) \in PrimarySignatures THEN 1
         ELSE IF to_signature(e) \in PrimarySignatures THEN 2 ELSE 0)

\* C9 amended: the entries are examined in a single pass in the order
\* temperature, distance, weight, and within a group minor-to-minor, then
\* primary-to-minor, then minor-to-primary; the first match is applied.
C9_ActualOrder ==
    Done =>
        /\ \A i \in 1..(Len(call.seen) - 1) :
               ActualRank(chain_of(call)[call.seen[i]])
                   <= ActualRank(chain_of(call)[call.seen[i + 1]])
        /\ FirstMatchApplied

\* A call no entry answers has examined all entries, a temperature
\* minor-to-minor entry first and a weight minor-to-primary entry last.
C9_Witness ==
    /\ Done /\ call.from = "xx" /\ call.hit = 0
    /\ Len(call.seen) = 24
    /\ ActualRank(chain_of(call)[call.seen[1]]) = 0
    /\ from_signature(chain_of(call)[call.seen[1]]) \in { "f", "k" }
    /\ ActualRank(chain_of(call)[call.seen[24]]) = 8
    /\ to_signature(chain_of(call)[call.seen[24]]) = "g"

\* C10: no two entries of the chain have the same (from_signature,
\* to_signature), so every entry that matches a call gives the call's result,
\* whatever the order of the scan.
C10_UniquePairs ==
    /\ \A id \in 1..Len(m_responsible) :
           LET chain == m_responsible[id]
           IN  Cardinality({ <<from_signature(chain[i]), to_signature(chain[i])>> :
                                 i \in 1..Len(chain) }) = Len(chain)
    /\ Done =>
           \A i \in 1..Len(chain_of(call)) :
               is_reponsible(chain_of(call)[i], call.from, call.to)
                   => call.result = Some(convert(chain_of(call)[i], call.value))

\* The chain of 24 entries is built and a call on it has found its entry.
C10_Witness ==
    /\ Done /\ call.hit # 0 /\ call.result.kind = "value"
    /\ Len(chain_of(call)) = 24

\* C7: under concurrent first calls each Transform is constructed once per
\* (primary, minor) pair for the whole process, the factory and the dispatcher
\* singletons once, and no caller observes a torn construction.
C7_ConstructedOnce ==
    /\ \A c \in ConversionTypes : built[c] <= 1
    /\ factory_count <= 1
    /\ Len(m_responsible) <= 1
    /\ \A t \in Threads : thread[t].result.kind # "fault"

====
